---- MODULE Spec2Model ----
(***************************************************************************)
(* A model of the FusionIO key/value helper library (fio_kv_helper.cpp)    *)
(* and of its JNI binding (com_turn_fusionio_FusionIOAPI.cpp).             *)
(*                                                                         *)
(* The helper is a thin layer: every fio_kv_* function checks its          *)
(* arguments with assert() and forwards to one nvm_kv_* call of the vendor *)
(* SDK.  The model therefore has three parts:                              *)
(*   - the operating system's descriptor table (open(2) / close(2));       *)
(*   - the device behind the nvm_kv_* calls, modelled from the contract    *)
(*     the helper's documentation states for it;                           *)
(*   - the fio_kv_* functions and the JNI wrappers, translated from the    *)
(*     source, as operators from the state before a call to the call's     *)
(*     result and the state after it.                                      *)
(***************************************************************************)
EXTENDS Integers, Sequences, FiniteSets, TLC

VARIABLES
    store,      \* the caller's Store object: fields fd and kv
    os_fds,     \* the descriptors this process holds open
    dev,        \* the device: recorded configuration, handles, pools, pairs
    last,       \* the last call made through the layer, with its result
    first_ver,  \* the caller's version at the open that made the device record one
    written,    \* per pool and key: what the caller last put there successfully
    aborted,    \* the process was terminated by a failed assert()
    ndebug,     \* the build compiles assert() out (NDEBUG)
    walk,       \* per iterator id: what the caller has seen of its traversal
    calls       \* per thread: the call it has handed to the device, if any

vars ==
    <<store, os_fds, dev, last, first_ver, written, aborted, ndebug, walk,
      calls>>

(***************************************************************************)
(* Bounds of the model.                                                    *)
(***************************************************************************)
MaxFds == 2                 \* descriptors the process may hold at once
MaxGen == 2                 \* generation counts the device hands out per key
MaxIters == 2               \* cursors the device can hold at once
NVM_KV_MAX_POOLS == 3       \* pool ids are 0 .. NVM_KV_MAX_POOLS - 1
NVM_KV_MAX_KEY_SIZE == 2    \* longest key the device accepts
NVM_KV_MAX_VALUE_SIZE == 2  \* longest value the device accepts

(***************************************************************************)
(* Program constants.                                                      *)
(***************************************************************************)
FIO_KV_API_VERSION == 1
FIO_SECTOR_ALIGNMENT == 512
KV_ARBITRARY_EXPIRY == "arbitrary"
FIO_TAG_MAX_LENGTH == 16

Fds == 3 .. (2 + MaxFds)        \* 0, 1 and 2 are the standard streams
KvIds == 1 .. MaxFds
PoolIds == 0 .. (NVM_KV_MAX_POOLS - 1)
ItIds == 0 .. (MaxIters - 1)
Versions == {1, 2}
ExpiryModes == {"disabled", "arbitrary", "global"}
ExpiryTimes == {0, 60}
Tags == {"sessions", "users"}
KeyBytes == {1, 2}

Min(S) == CHOOSE x \in S : \A y \in S : x <= y

RECURSIVE SeqsOfLen(_, _)
SeqsOfLen(S, n) ==
    IF n = 0 THEN {<<>>}
    ELSE {Append(q, x) : q \in SeqsOfLen(S, n - 1), x \in S}

\* the sequence of n copies of x
RECURSIVE Rep(_, _)
Rep(x, n) == IF n = 0 THEN <<>> ELSE Append(Rep(x, n - 1), x)

\* every key the device can hold
DevKeys == UNION {SeqsOfLen(KeyBytes, n) : n \in 1 .. NVM_KV_MAX_KEY_SIZE}

(***************************************************************************)
(* The operating system: open(2) hands out the lowest free descriptor, or  *)
(* fails (-1) when the path cannot be opened or the table is full;         *)
(* close(2) releases a descriptor and everything the driver attached to it.*)
(***************************************************************************)
os_open(fds, path_ok) ==
    IF path_ok /\ Fds \ fds # {}
    THEN [fd |-> Min(Fds \ fds), fds |-> fds \cup {Min(Fds \ fds)}]
    ELSE [fd |-> -1, fds |-> fds]

NoIter == [active |-> FALSE, kv |-> 0, pool |-> 0, todo |-> {}, cur |-> <<>>]

\* the cursors of the handles in kvs are gone
drop_iters(its, kvs) ==
    [i \in ItIds |-> IF its[i].active /\ its[i].kv \in kvs THEN NoIter
                     ELSE its[i]]

os_close(fds, d, fd) ==
    [fds |-> fds \ {fd},
     dev |-> IF fd \in fds
             THEN [d EXCEPT
                     !.handles = {h \in @ : h.fd # fd},
                     !.iters = drop_iters(@, {h.kv : h \in
                                   {g \in d.handles : g.fd = fd}})]
             ELSE d]

(***************************************************************************)
(* The device behind the nvm_kv_* calls.                                   *)
(***************************************************************************)
NoEntry == [present |-> FALSE, bytes |-> <<>>, expiry |-> 0, gen |-> 0]

NoPool == ""

EmptyData == [p \in PoolIds |-> [k \in DevKeys |-> NoEntry]]

FreshPools == [p \in PoolIds |-> IF p = 0 THEN "default" ELSE NoPool]

FreshDev ==
    [version |-> 0, expiry_mode |-> "none", global_expiry |-> 0,
     handles |-> {}, pools |-> FreshPools, data |-> EmptyData,
     iters |-> [i \in ItIds |-> NoIter], fault |-> FALSE, deleting |-> {}]

valid_kv(d, kv) == \E h \in d.handles : h.kv = kv

usable(d, kv) == ~d.fault /\ valid_kv(d, kv)

\* nvm_kv_open: records the version on the first open, validates it later
nvm_kv_open(d, fds, fd, version, max_pools, expiry) ==
    LET used == {h.kv : h \in d.handles}
        ok   == /\ ~d.fault
                /\ fd \in fds
                /\ KvIds \ used # {}
                /\ d.version = 0 \/ d.version = version
    IN  IF ok
        THEN [ret |-> Min(KvIds \ used),
              dev |-> [d EXCEPT
                        !.handles = @ \cup {[kv |-> Min(KvIds \ used), fd |-> fd]},
                        !.version = version,
                        !.expiry_mode = IF d.version = 0 THEN expiry ELSE @]]
        ELSE [ret |-> -1, dev |-> d]

\* nvm_kv_destroy: erases every pool, key and value, and the recorded setup
nvm_kv_destroy(d, kv) ==
    IF usable(d, kv)
    THEN [ret |-> 0,
          dev |-> [d EXCEPT !.version = 0, !.expiry_mode = "none",
                            !.global_expiry = 0,
                            !.pools = FreshPools, !.data = EmptyData,
                            !.iters = [i \in ItIds |-> NoIter],
                            !.deleting = {}]]
    ELSE [ret |-> -1, dev |-> d]

(***************************************************************************)
(* fio_kv_helper.cpp: the store's lifecycle.                               *)
(***************************************************************************)
ClosedStore == [fd |-> 0, kv |-> 0]

\* The declared interface (fio_kv_helper.h) takes version, expiry_type and
\* expiry_time; the body under src/ uses none of them.
fio_kv_open(st, fds, d, path_ok, version, expiry_type, expiry_time) ==
    LET o   == os_open(fds, path_ok)
        st1 == [st EXCEPT !.fd = o.fd]
        k   == nvm_kv_open(d, o.fds, o.fd, FIO_KV_API_VERSION,
                           NVM_KV_MAX_POOLS, KV_ARBITRARY_EXPIRY)
        st2 == [st1 EXCEPT !.kv = k.ret]
    IN  IF o.fd < 0
        THEN [ret |-> FALSE, store |-> st1, fds |-> o.fds, dev |-> d,
              fd_got |-> o.fd]
        ELSE IF k.ret <= 0
        THEN [ret |-> FALSE, store |-> st2, fds |-> o.fds, dev |-> k.dev,
              fd_got |-> o.fd]
        ELSE [ret |-> TRUE, store |-> st2, fds |-> o.fds, dev |-> k.dev,
              fd_got |-> o.fd]

\* fio_kv_close that clears the descriptor and leaves the store identifier
fio_kv_close_keepkv(st, fds, d) ==
    LET c == IF st.fd # 0 THEN os_close(fds, d, st.fd)
                          ELSE [fds |-> fds, dev |-> d]
    IN  [store |-> [st EXCEPT !.fd = 0],
         fds |-> c.fds, dev |-> c.dev,
         released |-> IF st.fd # 0 /\ st.fd \in fds THEN {st.fd} ELSE {}]

fio_kv_close(st, fds, d) ==
    LET c == IF st.fd # 0 THEN os_close(fds, d, st.fd)
                          ELSE [fds |-> fds, dev |-> d]
    IN  [store |-> [st EXCEPT !.fd = 0, !.kv = 0],
         fds |-> c.fds, dev |-> c.dev,
         released |-> IF st.fd # 0 /\ st.fd \in fds THEN {st.fd} ELSE {}]

\* fio_kv_destroy that returns without closing when the erase fails
fio_kv_destroy_early(st, fds, d) ==
    LET r == nvm_kv_destroy(d, st.kv)
        c == fio_kv_close(st, fds, r.dev)
    IN  IF r.ret # 0
        THEN [ret |-> FALSE, store |-> st, fds |-> fds, dev |-> r.dev,
              erased |-> FALSE]
        ELSE [ret |-> TRUE, store |-> c.store, fds |-> c.fds, dev |-> c.dev,
              erased |-> TRUE]

fio_kv_destroy(st, fds, d) ==
    LET r == nvm_kv_destroy(d, st.kv)
        c == fio_kv_close(st, fds, r.dev)
    IN  [ret |-> (r.ret = 0), store |-> c.store, fds |-> c.fds, dev |-> c.dev,
         erased |-> (r.dev.data = EmptyData /\ r.dev.pools = FreshPools
                     /\ r.dev.version = 0)]

(***************************************************************************)
(* Arguments.  A key is (length, bytes); a value is (data, info); info is  *)
(* the nvm_kv_key_info_t record.  A null pointer is the empty buffer.      *)
(***************************************************************************)
NullPtr == <<>>

MkInfo(p, kl, vl, e, g) ==
    [pool_id |-> p, key_len |-> kl, value_len |-> vl, expiry |-> e,
     gen_count |-> g]

MinOf(a, b) == IF a <= b THEN a ELSE b

\* the bytes of a key as the device reads them: key_len bytes from the pointer
key_read(bytes, key_len) == SubSeq(bytes, 1, key_len)

dev_key_ok(bytes, key_len) ==
    /\ key_len >= 1
    /\ key_len <= NVM_KV_MAX_KEY_SIZE
    /\ key_len <= Len(bytes)

\* a pool the device knows and is not deleting
dev_pool_ok(d, pool_id) ==
    /\ pool_id \in PoolIds
    /\ d.pools[pool_id] # NoPool
    /\ pool_id \notin d.deleting

nvm_kv_put(d, kv, pool_id, key, key_len, data, value_len, expiry, replace, gen_count) ==
    LET seen == [value_len |-> value_len, expiry |-> expiry,
                 gen_count |-> gen_count]
        ok   == /\ usable(d, kv)
                /\ dev_pool_ok(d, pool_id)
                /\ dev_key_ok(key, key_len)
                /\ value_len >= 1
                /\ value_len <= NVM_KV_MAX_VALUE_SIZE
                /\ value_len <= Len(data)
                /\ replace \/ ~d.data[pool_id][key_read(key, key_len)].present
    IN  IF ok
        THEN LET k   == key_read(key, key_len)
                 old == d.data[pool_id][k]
                 new == [present |-> TRUE,
                         bytes |-> SubSeq(data, 1, value_len),
                         expiry |-> expiry, gen |-> old.gen + 1]
             IN  [ret |-> value_len,
                  dev |-> [d EXCEPT !.data[pool_id][k] = new],
                  seen |-> seen]
        ELSE [ret |-> -1, dev |-> d, seen |-> seen]

nvm_kv_get(d, kv, pool_id, key, key_len, buf, buf_len, read_exact, info) ==
    LET ok == /\ usable(d, kv)
              /\ dev_pool_ok(d, pool_id)
              /\ dev_key_ok(key, key_len)
              /\ d.data[pool_id][key_read(key, key_len)].present
              /\ buf_len >= 1
              /\ buf_len <= Len(buf)
    IN  IF ok
        THEN LET e == d.data[pool_id][key_read(key, key_len)]
                 n == MinOf(buf_len, Len(e.bytes))
             IN  [ret |-> n,
                  buf |-> SubSeq(e.bytes, 1, n) \o SubSeq(buf, n + 1, Len(buf)),
                  info |-> MkInfo(pool_id, key_len, Len(e.bytes), e.expiry,
                                  e.gen)]
        ELSE [ret |-> -1, buf |-> buf, info |-> info]

nvm_kv_exists(d, kv, pool_id, key, key_len, info) ==
    IF usable(d, kv) /\ dev_pool_ok(d, pool_id) /\ dev_key_ok(key, key_len)
    THEN LET e == d.data[pool_id][key_read(key, key_len)]
         IN  IF e.present
             THEN [ret |-> 1,
                   info |-> MkInfo(pool_id, key_len, Len(e.bytes), e.expiry,
                                   e.gen)]
             ELSE [ret |-> 0, info |-> info]
    ELSE [ret |-> -1, info |-> info]

nvm_kv_delete(d, kv, pool_id, key, key_len) ==
    IF /\ usable(d, kv)
       /\ dev_pool_ok(d, pool_id)
       /\ dev_key_ok(key, key_len)
       /\ d.data[pool_id][key_read(key, key_len)].present
    THEN [ret |-> 0,
          dev |-> [d EXCEPT !.data[pool_id][key_read(key, key_len)] = NoEntry]]
    ELSE [ret |-> -1, dev |-> d]

\* the value length rounded up to the next sector
sector_round(n) ==
    ((n + FIO_SECTOR_ALIGNMENT - 1) \div FIO_SECTOR_ALIGNMENT)
        * FIO_SECTOR_ALIGNMENT

nvm_kv_get_val_len(d, kv, pool_id, key, key_len) ==
    IF /\ usable(d, kv)
       /\ dev_pool_ok(d, pool_id)
       /\ dev_key_ok(key, key_len)
       /\ d.data[pool_id][key_read(key, key_len)].present
    THEN sector_round(Len(d.data[pool_id][key_read(key, key_len)].bytes))
    ELSE -1

user_pools(d) == {p \in PoolIds \ {0} : d.pools[p] # NoPool}

nvm_kv_get_store_info(d, kv) ==
    IF usable(d, kv)
    THEN [ret |-> 0,
          info |-> [version |-> d.version,
                    num_pools |-> Cardinality(user_pools(d)),
                    max_pools |-> NVM_KV_MAX_POOLS,
                    expiry_mode |-> d.expiry_mode,
                    num_keys |-> Cardinality({pk \in PoolIds \X DevKeys :
                                     d.data[pk[1]][pk[2]].present})]]
    ELSE [ret |-> -1, info |-> <<>>]

\* the number of bytes of a pool tag
TagLen(tag) ==
    CASE tag = "sessions" -> 8
      [] tag = "a-seventeen-bytes" -> 17
      [] OTHER -> 0

\* nvm_kv_pool_create: the pool of that tag, created if there is none
nvm_kv_pool_create(d, kv, tag) ==
    LET have == {p \in user_pools(d) \ d.deleting : d.pools[p] = tag}
        free == (PoolIds \ {0}) \ user_pools(d)
    IN  IF TagLen(tag) > FIO_TAG_MAX_LENGTH THEN [ret |-> -1, dev |-> d]
        ELSE IF usable(d, kv) /\ have # {}
        THEN [ret |-> Min(have), dev |-> d]
        ELSE IF usable(d, kv) /\ free # {}
        THEN [ret |-> Min(free), dev |-> [d EXCEPT !.pools[Min(free)] = tag]]
        ELSE [ret |-> -1, dev |-> d]

\* nvm_kv_pool_delete: the pool is unusable at once; it is counted until the
\* device has reclaimed it
nvm_kv_pool_delete(d, kv, pool_id) ==
    IF usable(d, kv) /\ pool_id \in user_pools(d) \ d.deleting
    THEN [ret |-> 0, dev |-> [d EXCEPT !.deleting = @ \cup {pool_id}]]
    ELSE [ret |-> -1, dev |-> d]

\* the device finishes the deletion of a pool: its pairs and its slot are gone
nvm_kv_pool_reclaim(d, pool_id) ==
    [d EXCEPT !.pools[pool_id] = NoPool,
              !.data[pool_id] = EmptyData[pool_id],
              !.deleting = @ \ {pool_id}]

\* nvm_kv_batch_put: one call, the entries written in order; the first
\* entry the device refuses ends the call, with the entries before it kept
RECURSIVE batch_apply(_, _, _, _, _)
batch_apply(d, kv, pool_id, v, i) ==
    IF i > Len(v) THEN [ret |-> 0, dev |-> d]
    ELSE LET r == nvm_kv_put(d, kv, pool_id, v[i].key, v[i].key_len,
                             v[i].value, v[i].value_len, v[i].expiry,
                             v[i].replace, v[i].gen_count)
         IN  IF r.ret < 0 THEN [ret |-> -1, dev |-> r.dev]
             ELSE batch_apply(r.dev, kv, pool_id, v, i + 1)

nvm_kv_batch_put(d, kv, pool_id, v, count) ==
    IF count >= 1 /\ count <= Len(v)
    THEN batch_apply(d, kv, pool_id, SubSeq(v, 1, count), 1)
    ELSE [ret |-> -1, dev |-> d]

(***************************************************************************)
(* The device's cursors.  A cursor starts before the first pair of the     *)
(* pool; each next moves it to a pair not visited yet, in an order the     *)
(* device chooses (pick), until none is left.                              *)
(***************************************************************************)
iter_ok(d, kv, it) ==
    /\ usable(d, kv)
    /\ it \in ItIds
    /\ d.iters[it].active
    /\ d.iters[it].kv = kv

nvm_kv_begin(d, kv, pool_id) ==
    LET free == {i \in ItIds : ~d.iters[i].active}
    IN  IF usable(d, kv) /\ dev_pool_ok(d, pool_id) /\ free # {}
        THEN [ret |-> Min(free),
              dev |-> [d EXCEPT !.iters[Min(free)] =
                        [active |-> TRUE, kv |-> kv, pool |-> pool_id,
                         todo |-> {k \in DevKeys : d.data[pool_id][k].present},
                         cur |-> <<>>]]]
        ELSE [ret |-> -1, dev |-> d]

nvm_kv_next(d, kv, it, pick) ==
    IF iter_ok(d, kv, it)
    THEN IF pick \in d.iters[it].todo
         THEN [ret |-> 0,
               dev |-> [d EXCEPT !.iters[it].todo = @ \ {pick},
                                 !.iters[it].cur = pick]]
         ELSE [ret |-> -1,
               dev |-> [d EXCEPT !.iters[it].todo = {},
                                 !.iters[it].cur = <<>>]]
    ELSE [ret |-> -1, dev |-> d]

nvm_kv_get_current(d, kv, it, key, key_len, buf, buf_len, info) ==
    LET c  == d.iters[it]
        ok == /\ iter_ok(d, kv, it)
              /\ c.cur # <<>>
              /\ d.data[c.pool][c.cur].present
              /\ buf_len >= 1
              /\ buf_len <= Len(buf)
    IN  IF ok
        THEN LET e == d.data[c.pool][c.cur]
                 n == MinOf(buf_len, Len(e.bytes))
             IN  [ret |-> n, key |-> c.cur, key_len |-> Len(c.cur),
                  buf |-> SubSeq(e.bytes, 1, n) \o SubSeq(buf, n + 1, Len(buf)),
                  info |-> MkInfo(c.pool, Len(c.cur), Len(e.bytes), e.expiry,
                                  e.gen)]
        ELSE [ret |-> -1, key |-> key, key_len |-> key_len, buf |-> buf,
              info |-> info]

nvm_kv_iteration_end(d, kv, it) ==
    IF iter_ok(d, kv, it)
    THEN [ret |-> 0, dev |-> [d EXCEPT !.iters[it] = NoIter]]
    ELSE [ret |-> -1, dev |-> d]

(***************************************************************************)
(* fio_kv_helper.cpp: single-item operations.  check_* are the assert()s   *)
(* at the head of each function; when one fails the process is terminated, *)
(* unless the build compiles assert() out, in which case the call goes on  *)
(* to the device.                                                          *)
(***************************************************************************)
check_pool(pool) == pool.id >= 0 /\ pool.id < NVM_KV_MAX_POOLS

check_key(key) ==
    /\ key.length >= 1
    /\ key.length <= NVM_KV_MAX_KEY_SIZE
    /\ key.bytes # NullPtr

check_value(value) == value.data # NullPtr

\* fio_kv_get with key->length passed where the buffer length belongs
fio_kv_get_keylen(nd, d, pool, key, value) ==
    IF ~nd /\ ~(check_pool(pool) /\ check_key(key) /\ check_value(value))
    THEN [abort |-> TRUE, ret |-> -1, dev |-> d, buf |-> value.data,
          info |-> value.info]
    ELSE LET r == nvm_kv_get(d, pool.store.kv, pool.id, key.bytes, key.length,
                             value.data, key.length, FALSE, value.info)
         IN  [abort |-> FALSE, ret |-> r.ret, dev |-> d, buf |-> r.buf,
              info |-> r.info]

fio_kv_get(nd, d, pool, key, value) ==
    IF ~nd /\ ~(check_pool(pool) /\ check_key(key) /\ check_value(value))
    THEN [abort |-> TRUE, ret |-> -1, dev |-> d, buf |-> value.data,
          info |-> value.info]
    ELSE LET r == nvm_kv_get(d, pool.store.kv, pool.id, key.bytes, key.length,
                             value.data, value.info.value_len, FALSE,
                             value.info)
         IN  [abort |-> FALSE, ret |-> r.ret, dev |-> d, buf |-> r.buf,
              info |-> r.info]

\* fio_kv_put that writes to the default pool whatever pool it is given
fio_kv_put_pool0(nd, d, pool, key, value) ==
    IF ~nd /\ ~(check_pool(pool) /\ check_key(key) /\ check_value(value))
    THEN [abort |-> TRUE, ret |-> -1, dev |-> d, info |-> value.info,
          seen |-> <<>>]
    ELSE LET r == nvm_kv_put(d, pool.store.kv, 0, key.bytes, key.length,
                             value.data, value.info.value_len,
                             value.info.expiry, TRUE, 0)
         IN  [abort |-> FALSE, ret |-> r.ret, dev |-> r.dev,
              info |-> value.info, seen |-> <<r.seen>>]

fio_kv_put(nd, d, pool, key, value) ==
    IF ~nd /\ ~(check_pool(pool) /\ check_key(key) /\ check_value(value))
    THEN [abort |-> TRUE, ret |-> -1, dev |-> d, info |-> value.info,
          seen |-> <<>>]
    ELSE LET r == nvm_kv_put(d, pool.store.kv, pool.id, key.bytes, key.length,
                             value.data, value.info.value_len,
                             value.info.expiry, TRUE, 0)
         IN  [abort |-> FALSE, ret |-> r.ret, dev |-> r.dev,
              info |-> value.info, seen |-> <<r.seen>>]

\* fio_kv_exists with the device's answer tested "== 0", as fio_kv_delete
\* tests its own
fio_kv_exists_eq0(nd, d, pool, key, has_info, info) ==
    IF ~nd /\ ~(check_pool(pool) /\ check_key(key))
    THEN [abort |-> TRUE, ret |-> -1, dev |-> d, info |-> info]
    ELSE LET r == nvm_kv_exists(d, pool.store.kv, pool.id, key.bytes,
                                key.length, info)
         IN  [abort |-> FALSE, ret |-> IF r.ret = 0 THEN 1 ELSE 0, dev |-> d,
              info |-> IF has_info THEN r.info ELSE info]

fio_kv_exists(nd, d, pool, key, has_info, info) ==
    IF ~nd /\ ~(check_pool(pool) /\ check_key(key))
    THEN [abort |-> TRUE, ret |-> -1, dev |-> d, info |-> info]
    ELSE LET r == nvm_kv_exists(d, pool.store.kv, pool.id, key.bytes,
                                key.length, info)
         IN  [abort |-> FALSE, ret |-> r.ret, dev |-> d,
              info |-> IF has_info THEN r.info ELSE info]

fio_kv_delete(nd, d, pool, key) ==
    IF ~nd /\ ~(check_pool(pool) /\ check_key(key))
    THEN [abort |-> TRUE, ret |-> FALSE, dev |-> d]
    ELSE LET r == nvm_kv_delete(d, pool.store.kv, pool.id, key.bytes,
                                key.length)
         IN  [abort |-> FALSE, ret |-> (r.ret = 0), dev |-> r.dev]

fio_kv_get_store_info(d, st) ==
    LET r == nvm_kv_get_store_info(d, st.kv)
    IN  IF r.ret < 0 THEN [null |-> TRUE, info |-> <<>>]
        ELSE [null |-> FALSE, info |-> r.info]

\* fio_kv_create_pool without the test of the device's answer
fio_kv_create_pool_nocheck(d, st, tag) ==
    LET r == nvm_kv_pool_create(d, st.kv, tag)
    IN  [null |-> FALSE, id |-> r.ret, tag |-> tag, dev |-> r.dev,
         called |-> TRUE]

\* called: the request was handed to the device
fio_kv_create_pool(d, st, tag) ==
    LET r == nvm_kv_pool_create(d, st.kv, tag)
    IN  IF r.ret <= 0
        THEN [null |-> TRUE, id |-> 0, tag |-> tag, dev |-> r.dev,
              called |-> TRUE]
        ELSE [null |-> FALSE, id |-> r.ret, tag |-> tag, dev |-> r.dev,
              called |-> TRUE]

\* fio_kv_get_or_create_pool: declared in fio_kv_helper.h and called by the
\* binding; the pool of that tag, the device creating it if there is none
fio_kv_get_or_create_pool(d, st, tag) ==
    LET r == nvm_kv_pool_create(d, st.kv, tag)
    IN  IF r.ret <= 0
        THEN [null |-> TRUE, id |-> 0, tag |-> tag, dev |-> r.dev]
        ELSE [null |-> FALSE, id |-> r.ret, tag |-> tag, dev |-> r.dev]

\* fio_kv_delete_pool: declared in fio_kv_helper.h and called by the binding
fio_kv_delete_pool(d, pool) ==
    LET r == nvm_kv_pool_delete(d, pool.store.kv, pool.id)
    IN  [ret |-> (r.ret = 0), dev |-> r.dev]

fio_kv_get_value_len(nd, d, pool, key) ==
    IF ~nd /\ ~(check_pool(pool) /\ check_key(key))
    THEN [abort |-> TRUE, ret |-> -1, dev |-> d]
    ELSE [abort |-> FALSE,
          ret |-> nvm_kv_get_val_len(d, pool.store.kv, pool.id, key.bytes,
                                     key.length),
          dev |-> d]

(***************************************************************************)
(* fio_kv_helper.cpp: memory.  A uint32_t is the pair of its 16-bit halves *)
(* (hi, lo), so that sums and differences wrap at 2^32 as they do in C.    *)
(***************************************************************************)
U32(hi, lo) == [hi |-> hi, lo |-> lo]

u32_of(n) == U32(n \div 65536, n % 65536)

u32_add(a, b) ==
    LET lo == a.lo + b.lo
    IN  U32((a.hi + b.hi + (lo \div 65536)) % 65536, lo % 65536)

u32_sub(a, b) ==
    LET borrow == IF a.lo < b.lo THEN 1 ELSE 0
    IN  U32((a.hi - b.hi - borrow + 65536) % 65536,
            (a.lo - b.lo + 65536) % 65536)

\* a % n for n that divides 2^16
u32_mod(a, n) == a.lo % n

u32_less(a, b) == a.hi < b.hi \/ (a.hi = b.hi /\ a.lo < b.lo)

NULL == 0

\* posix_memalign(&p, alignment, size): on success *p is an address that is
\* a multiple of alignment (for size 0: that, or NULL); on failure *p is
\* left as it was.  addr, zero_null and fits are the system's choices.
posix_memalign(p, alignment, size, fits, addr, zero_null) ==
    IF ~fits THEN [ret |-> 12, p |-> p]
    ELSE IF size = U32(0, 0) /\ zero_null THEN [ret |-> 0, p |-> NULL]
    ELSE [ret |-> 0, p |-> addr * alignment]

\* the byte count fio_kv_alloc asks for
alloc_size(length) ==
    u32_sub(u32_add(length, u32_of(FIO_SECTOR_ALIGNMENT)),
            u32_of(u32_mod(length, FIO_SECTOR_ALIGNMENT)))

\* fio_kv_alloc declares p without a value, ignores what posix_memalign
\* returns, and returns p: junk is what the uninitialized p held
fio_kv_alloc(length, junk, fits, addr, zero_null) ==
    LET r == posix_memalign(junk, FIO_SECTOR_ALIGNMENT, alloc_size(length),
                            fits, addr, zero_null)
    IN  [p |-> r.p, size |-> alloc_size(length), reserved |-> (r.ret = 0)]

(***************************************************************************)
(* fio_kv_helper.cpp: batch operations.                                    *)
(***************************************************************************)
check_entry(key, value) == check_key(key) /\ check_value(value)

_fio_kv_prepare_batch(nd, keys, values, count) ==
    IF ~nd /\ ~(count > 0 /\ \A i \in 1 .. count :
                               check_entry(keys[i], values[i]))
    THEN [abort |-> TRUE, v |-> <<>>]
    ELSE [abort |-> FALSE,
          v |-> [i \in 1 .. count |->
                  [key |-> keys[i].bytes, key_len |-> keys[i].length,
                   value |-> values[i].data,
                   value_len |-> values[i].info.value_len,
                   expiry |-> values[i].info.expiry,
                   gen_count |-> values[i].info.gen_count,
                   replace |-> TRUE]]]

fio_kv_batch_put(nd, d, pool, keys, values, count) ==
    LET b == _fio_kv_prepare_batch(nd, keys, values, count)
    IN  IF (~nd /\ ~check_pool(pool)) \/ b.abort
        THEN [abort |-> TRUE, ret |-> FALSE, dev |-> d, v |-> <<>>,
              infos |-> [i \in 1 .. count |-> values[i].info]]
        ELSE LET r == nvm_kv_batch_put(d, pool.store.kv, pool.id, b.v, count)
             IN  [abort |-> FALSE, ret |-> (r.ret = 0), dev |-> r.dev,
                  v |-> b.v,
                  infos |-> [i \in 1 .. count |-> values[i].info]]

(***************************************************************************)
(* fio_kv_helper.cpp: iteration.                                           *)
(***************************************************************************)
fio_kv_iterator(nd, d, pool) ==
    IF ~nd /\ ~check_pool(pool)
    THEN [abort |-> TRUE, ret |-> -1, dev |-> d]
    ELSE LET r == nvm_kv_begin(d, pool.store.kv, pool.id)
         IN  [abort |-> FALSE, ret |-> r.ret, dev |-> r.dev]

\* fio_kv_next taking every non-positive answer of the device for a step
fio_kv_next_le0(nd, d, pool, iterator, pick) ==
    IF ~nd /\ ~(check_pool(pool) /\ iterator >= 0)
    THEN [abort |-> TRUE, ret |-> FALSE, dev |-> d]
    ELSE LET r == nvm_kv_next(d, pool.store.kv, iterator, pick)
         IN  [abort |-> FALSE, ret |-> (r.ret <= 0), dev |-> r.dev]

fio_kv_next(nd, d, pool, iterator, pick) ==
    IF ~nd /\ ~(check_pool(pool) /\ iterator >= 0)
    THEN [abort |-> TRUE, ret |-> FALSE, dev |-> d]
    ELSE LET r == nvm_kv_next(d, pool.store.kv, iterator, pick)
         IN  [abort |-> FALSE, ret |-> (r.ret = 0), dev |-> r.dev]

\* fio_kv_get_current that reports the pair but leaves the caller's key
\* buffer and length as they were
fio_kv_get_current_nokey(nd, d, pool, iterator, key, value) ==
    IF ~nd /\ ~(check_pool(pool) /\ iterator >= 0 /\ check_key(key)
                /\ check_value(value))
    THEN [abort |-> TRUE, ret |-> FALSE, dev |-> d, key |-> key,
          buf |-> value.data, info |-> value.info]
    ELSE LET r == nvm_kv_get_current(d, pool.store.kv, iterator, key.bytes,
                                     key.length, value.data,
                                     value.info.value_len, value.info)
         IN  [abort |-> FALSE, ret |-> (r.ret >= 0), dev |-> d,
              key |-> key, buf |-> r.buf, info |-> r.info]

\* fio_kv_get_current taking the device's -1 for a pair
fio_kv_get_current_ge_m1(nd, d, pool, iterator, key, value) ==
    IF ~nd /\ ~(check_pool(pool) /\ iterator >= 0 /\ check_key(key)
                /\ check_value(value))
    THEN [abort |-> TRUE, ret |-> FALSE, dev |-> d, key |-> key,
          buf |-> value.data, info |-> value.info]
    ELSE LET r == nvm_kv_get_current(d, pool.store.kv, iterator, key.bytes,
                                     key.length, value.data,
                                     value.info.value_len, value.info)
         IN  [abort |-> FALSE, ret |-> (r.ret >= -1), dev |-> d,
              key |-> [length |-> r.key_len, bytes |-> r.key],
              buf |-> r.buf, info |-> r.info]

fio_kv_get_current(nd, d, pool, iterator, key, value) ==
    IF ~nd /\ ~(check_pool(pool) /\ iterator >= 0 /\ check_key(key)
                /\ check_value(value))
    THEN [abort |-> TRUE, ret |-> FALSE, dev |-> d, key |-> key,
          buf |-> value.data, info |-> value.info]
    ELSE LET r == nvm_kv_get_current(d, pool.store.kv, iterator, key.bytes,
                                     key.length, value.data,
                                     value.info.value_len, value.info)
         IN  [abort |-> FALSE, ret |-> (r.ret >= 0), dev |-> d,
              key |-> [length |-> r.key_len, bytes |-> r.key],
              buf |-> r.buf, info |-> r.info]

\* fio_kv_end_iteration with the test of the device's answer inverted
fio_kv_end_iteration_ne0(nd, d, pool, iterator) ==
    IF ~nd /\ ~(check_pool(pool) /\ iterator >= 0)
    THEN [abort |-> TRUE, ret |-> FALSE, dev |-> d]
    ELSE LET r == nvm_kv_iteration_end(d, pool.store.kv, iterator)
         IN  [abort |-> FALSE, ret |-> (r.ret # 0), dev |-> r.dev]

fio_kv_end_iteration(nd, d, pool, iterator) ==
    IF ~nd /\ ~(check_pool(pool) /\ iterator >= 0)
    THEN [abort |-> TRUE, ret |-> FALSE, dev |-> d]
    ELSE LET r == nvm_kv_iteration_end(d, pool.store.kv, iterator)
         IN  [abort |-> FALSE, ret |-> (r.ret = 0), dev |-> r.dev]

(***************************************************************************)
(* com_turn_fusionio_FusionIOAPI.cpp: the JNI binding.                     *)
(***************************************************************************)
\* (bool) of an int, as "bool ret = fio_kv_exists(...)" converts it
to_bool(i) == i # 0

\* __fio_kv_call_kv: runs op on copies of the Java objects, then writes the
\* native info record back into the Java KeyValueInfo
jni_call_kv(r) == [ret |-> r.ret, info |-> r.info]

\* fio_kv_alloc through JNI: a direct ByteBuffer of _length bytes over p, or
\* null when p is null
jni_alloc(r, length) ==
    IF r.p # NULL THEN [null |-> FALSE, address |-> r.p, capacity |-> length]
    ELSE [null |-> TRUE, address |-> NULL, capacity |-> U32(0, 0)]

\* fio_kv_batch_put through JNI: after the call the native info record of
\* every value is written into its Java KeyValueInfo, in input order
jni_batch_put(r) == [ret |-> r.ret, infos |-> r.infos]

\* fio_kv_get_or_create_pool through JNI, with a Pool object made whether or
\* not the native call returned a pool
jni_get_or_create_pool_nonull(r) == [null |-> FALSE, id |-> r.id, tag |-> r.tag]

\* fio_kv_get_or_create_pool through JNI: a Pool object of the native pool's
\* id and the caller's tag, or null when the native call returned NULL
jni_get_or_create_pool(r) ==
    IF r.null THEN [null |-> TRUE, id |-> 0, tag |-> r.tag]
    ELSE [null |-> FALSE, id |-> r.id, tag |-> r.tag]

\* fio_kv_delete_pool through JNI: a jboolean
jni_delete_pool(r) == [ret |-> r.ret]

\* fio_kv_exists through JNI: a jboolean; the Java info object is not
\* written back
jni_exists(r, info) == [ret |-> to_bool(r.ret), info |-> info]

(***************************************************************************)
(* The state machine.                                                      *)
(***************************************************************************)
\* what the callers pass
KeyA == [length |-> 1, bytes |-> <<1>>]
KeyB == [length |-> 2, bytes |-> <<2, 1>>]
KeyZero == [length |-> 0, bytes |-> <<1>>]
KeyLong ==
    [length |-> NVM_KV_MAX_KEY_SIZE + 1,
     bytes |-> Rep(1, NVM_KV_MAX_KEY_SIZE + 1)]

Buf(b) == Rep(b, NVM_KV_MAX_VALUE_SIZE + 1)

InfoShort == MkInfo(0, 0, 1, 0, 0)
InfoGen == MkInfo(0, 0, 1, 0, 1)         \* InfoShort but for gen_count
InfoFull == MkInfo(0, 0, NVM_KV_MAX_VALUE_SIZE, 60, 0)
InfoOver == MkInfo(0, 0, NVM_KV_MAX_VALUE_SIZE + 1, 0, 0)

OpenArgs ==
    {[version |-> v, expiry_type |-> e[1], expiry_time |-> e[2]] :
        v \in Versions,
        e \in {<<"disabled", 0>>, <<"arbitrary", 0>>, <<"global", 0>>,
                <<"global", 60>>}}

Pool(id) == [store |-> store, id |-> id]

NotWritten == [valid |-> FALSE, bytes |-> <<>>]

NothingWritten == [p \in PoolIds |-> [k \in DevKeys |-> NotWritten]]

GenBounded(d) == \A p \in PoolIds, k \in DevKeys : d.data[p][k].gen <= MaxGen

\* "put" or "delete" when the call before this one was that operation,
\* succeeded, and was on this pool and key
After(id, key) ==
    IF last.op \in {"put", "delete"} /\ last.ok /\ last.pool = id
       /\ last.key = key
    THEN last.op ELSE "other"

\* The caller's view of a traversal, kept per iterator id from the begin that
\* handed the id out: the keys the pool held then, the keys get_current has
\* yielded, the successful steps, whether next has reported the end, whether
\* a step was followed by another without reading the pair, and whether
\* end_iteration has succeeded on the id.  The view is kept only while the
\* device is left alone (clean: no write and no failure since the begin);
\* after that only done and ended are.
NoWalk ==
    [snap |-> {}, seen |-> {}, steps |-> 0, done |-> FALSE, clean |-> FALSE,
     skipped |-> FALSE, pending |-> FALSE, ended |-> FALSE]

walk_begin(w, d, id, ret) ==
    IF ret \in ItIds
    THEN [w EXCEPT ![ret] =
            [NoWalk EXCEPT !.snap = {k \in DevKeys : d.data[id][k].present},
                           !.clean = TRUE]]
    ELSE w

walk_next(w, d, kv, it, ret) ==
    IF it \notin ItIds \/ ~iter_ok(d, kv, it) THEN w
    ELSE IF d.iters[it].todo = {}
         THEN [w EXCEPT ![it].done = TRUE,
                        ![it].skipped = @ \/ w[it].pending,
                        ![it].pending = FALSE]
         ELSE IF ret /\ w[it].clean
              THEN [w EXCEPT ![it].steps = @ + 1,
                             ![it].skipped = @ \/ w[it].pending,
                             ![it].pending = TRUE]
              ELSE w

walk_current(w, it, ret, key) ==
    IF it \in ItIds /\ ret /\ w[it].clean
    THEN [w EXCEPT ![it].seen = @ \cup {key_read(key.bytes, key.length)},
                   ![it].pending = FALSE]
    ELSE w

walk_end(w, it, ret) ==
    IF it \in ItIds /\ ret
    THEN [w EXCEPT ![it].ended = TRUE]
    ELSE w

walk_dirty(w) ==
    [i \in ItIds |-> [NoWalk EXCEPT !.done = w[i].done,
                                    !.ended = w[i].ended]]

\* the threads of the calling process, and a thread that is in no call
Threads == {"t1", "t2"}

Idle == [op |-> "idle", pool |-> -1, key |-> KeyA,
         value |-> [data |-> Buf(0), info |-> InfoShort]]

Init ==
    /\ store = ClosedStore
    /\ os_fds = {}
    /\ dev = FreshDev
    /\ last = [op |-> "none"]
    /\ first_ver = 0
    /\ written = NothingWritten
    /\ aborted = FALSE
    /\ ndebug \in BOOLEAN
    /\ walk = [i \in ItIds |-> NoWalk]
    /\ calls = [t \in Threads |-> Idle]

Open(args) ==
    /\ ~aborted
    /\ \E path_ok \in BOOLEAN, a \in args :
        LET r == fio_kv_open(store, os_fds, dev, path_ok, a.version,
                             a.expiry_type, a.expiry_time)
        IN  /\ store' = r.store
            /\ os_fds' = r.fds
            /\ dev' = r.dev
            /\ first_ver' = IF r.ret /\ dev.version = 0 THEN a.version
                            ELSE first_ver
            /\ last' = [op |-> "open", ret |-> r.ret, args |-> a,
                        fd_got |-> r.fd_got, was |-> store]
    /\ UNCHANGED <<calls, written, aborted, ndebug, walk>>

Close ==
    /\ ~aborted
    /\ LET r == fio_kv_close(store, os_fds, dev)
       IN  /\ store' = r.store
           /\ os_fds' = r.fds
           /\ dev' = r.dev
           /\ last' = [op |-> "close", released |-> r.released,
                       was |-> store,
                       was_held |-> (store.fd \in os_fds),
                       same |-> (r.fds = os_fds /\ r.dev = dev)]
    /\ UNCHANGED <<calls, first_ver, written, aborted, ndebug, walk>>

Destroy ==
    /\ ~aborted
    /\ LET r == fio_kv_destroy(store, os_fds, dev)
       IN  /\ store' = r.store
           /\ os_fds' = r.fds
           /\ dev' = r.dev
           /\ first_ver' = IF r.ret THEN 0 ELSE first_ver
           /\ written' = IF r.ret THEN NothingWritten ELSE written
           /\ walk' = IF r.dev # dev THEN walk_dirty(walk) ELSE walk
           /\ last' = [op |-> "destroy", ret |-> r.ret, was |-> store,
                       erased |-> r.erased,
                       kept |-> (r.dev.data = dev.data
                                 /\ r.dev.pools = dev.pools)]
    /\ UNCHANGED <<calls, aborted, ndebug>>

Put(ids, keys, datas, infos) ==
    /\ ~aborted
    /\ \E id \in ids, key \in keys, data \in datas, info \in infos :
        LET n == fio_kv_put(ndebug, dev, Pool(id), key,
                            [data |-> data, info |-> info])
            j == jni_call_kv(n)
            k == key_read(key.bytes, key.length)
        IN  /\ GenBounded(n.dev)
            /\ aborted' = n.abort
            /\ dev' = n.dev
            /\ written' =
                 IF ~n.abort /\ n.ret >= 0
                 THEN [written EXCEPT ![id][k] =
                         [valid |-> TRUE,
                          bytes |-> SubSeq(data, 1, info.value_len)]]
                 ELSE written
            /\ walk' = IF n.dev # dev THEN walk_dirty(walk) ELSE walk
            /\ last' = [op |-> "put", abort |-> n.abort, pool |-> id,
                        gone |-> (id \in dev.deleting),
                        key |-> key, ret |-> j.ret, ok |-> (j.ret >= 0),
                        info_in |-> info, info |-> j.info, seen |-> n.seen,
                        closed |-> (store = ClosedStore),
                        devsame |-> (n.dev = dev)]
    /\ UNCHANGED <<calls, store, os_fds, first_ver, ndebug>>

Get(ids, keys, infos) ==
    /\ ~aborted
    /\ \E id \in ids, key \in keys, info \in infos :
        LET n == fio_kv_get(ndebug, dev, Pool(id), key,
                            [data |-> Buf(0), info |-> info])
            j == jni_call_kv(n)
        IN  /\ aborted' = n.abort
            /\ dev' = n.dev
            /\ last' = [op |-> "get", abort |-> n.abort, pool |-> id,
                        gone |-> (id \in dev.deleting),
                        key |-> key, ret |-> j.ret, ok |-> (j.ret >= 0),
                        info_in |-> info, info |-> j.info, buf |-> n.buf,
                        closed |-> (store = ClosedStore),
                        devsame |-> (n.dev = dev)]
    /\ UNCHANGED <<calls, store, os_fds, first_ver, written, ndebug, walk>>

Exists(ids, keys) ==
    /\ ~aborted
    /\ \E id \in ids, key \in keys, has_info \in BOOLEAN :
        LET info == MkInfo(0, 0, 0, 0, 0)
            n == fio_kv_exists(ndebug, dev, Pool(id), key, has_info, info)
            j == jni_exists(n, info)
        IN  /\ aborted' = n.abort
            /\ dev' = n.dev
            /\ last' = [op |-> "exists", abort |-> n.abort, pool |-> id,
                        key |-> key, ret |-> n.ret, jret |-> j.ret,
                        has_info |-> has_info, info |-> n.info,
                        after |-> After(id, key),
                        closed |-> (store = ClosedStore),
                        devsame |-> (n.dev = dev)]
    /\ UNCHANGED <<calls, store, os_fds, first_ver, written, ndebug, walk>>

Delete(ids, keys) ==
    /\ ~aborted
    /\ \E id \in ids, key \in keys :
        LET n == fio_kv_delete(ndebug, dev, Pool(id), key)
            k == key_read(key.bytes, key.length)
        IN  /\ aborted' = n.abort
            /\ dev' = n.dev
            /\ written' = IF ~n.abort /\ n.ret
                          THEN [written EXCEPT ![id][k] = NotWritten]
                          ELSE written
            /\ walk' = IF n.dev # dev THEN walk_dirty(walk) ELSE walk
            /\ last' = [op |-> "delete", abort |-> n.abort, pool |-> id,
                        key |-> key, ret |-> n.ret, ok |-> n.ret,
                        closed |-> (store = ClosedStore),
                        devsame |-> (n.dev = dev)]
    /\ UNCHANGED <<calls, store, os_fds, first_ver, ndebug>>

GetValueLen(ids, keys) ==
    /\ ~aborted
    /\ \E id \in ids, key \in keys :
        LET n == fio_kv_get_value_len(ndebug, dev, Pool(id), key)
        IN  /\ aborted' = n.abort
            /\ dev' = n.dev
            /\ last' = [op |-> "get_value_len", abort |-> n.abort,
                        pool |-> id, key |-> key, ret |-> n.ret,
                        closed |-> (store = ClosedStore),
                        devsame |-> (n.dev = dev)]
    /\ UNCHANGED <<calls, store, os_fds, first_ver, written, ndebug, walk>>

GetStoreInfo ==
    /\ ~aborted
    /\ LET n == fio_kv_get_store_info(dev, store)
       IN  last' = [op |-> "get_store_info", abort |-> FALSE,
                    null |-> n.null, info |-> n.info,
                    closed |-> (store = ClosedStore), devsame |-> TRUE]
    /\ UNCHANGED <<calls, store, os_fds, dev, first_ver,
                   written, aborted, ndebug, walk>>

CreatePool(tags) ==
    /\ ~aborted
    /\ \E tag \in tags :
        LET n == fio_kv_create_pool(dev, store, tag)
        IN  /\ dev' = n.dev
            /\ last' = [op |-> "create_pool", abort |-> FALSE,
                        null |-> n.null, id |-> n.id, tag |-> tag,
                        called |-> n.called,
                        closed |-> (store = ClosedStore),
                        devsame |-> (n.dev = dev)]
    /\ UNCHANGED <<calls, store, os_fds, first_ver, written,
                   aborted, ndebug, walk>>

\* the pool the call before this one got or created under this tag, or -1
Again(tag) ==
    IF last.op = "get_or_create_pool" /\ ~last.null /\ last.tag = tag
    THEN last.id ELSE -1

GetOrCreatePool(tags) ==
    /\ ~aborted
    /\ \E tag \in tags :
        LET n == fio_kv_get_or_create_pool(dev, store, tag)
            j == jni_get_or_create_pool(n)
        IN  /\ dev' = n.dev
            /\ last' = [op |-> "get_or_create_pool", abort |-> FALSE,
                        null |-> j.null, id |-> j.id, tag |-> tag,
                        again |-> Again(tag),
                        count_was |-> Cardinality(user_pools(dev)),
                        count |-> Cardinality(user_pools(n.dev)),
                        closed |-> (store = ClosedStore),
                        devsame |-> (n.dev = dev)]
    /\ UNCHANGED <<calls, store, os_fds, first_ver, written,
                   aborted, ndebug, walk>>

DeletePool(ids) ==
    /\ ~aborted
    /\ \E id \in ids :
        LET n == fio_kv_delete_pool(dev, Pool(id))
            j == jni_delete_pool(n)
        IN  /\ dev' = n.dev
            /\ written' = IF n.ret
                          THEN [written EXCEPT ![id] = NothingWritten[id]]
                          ELSE written
            /\ walk' = IF n.dev # dev THEN walk_dirty(walk) ELSE walk
            /\ last' = [op |-> "delete_pool", abort |-> FALSE, pool |-> id,
                        ret |-> j.ret,
                        count_was |-> Cardinality(user_pools(dev)),
                        count |-> Cardinality(user_pools(n.dev)),
                        closed |-> (store = ClosedStore),
                        devsame |-> (n.dev = dev)]
    /\ UNCHANGED <<calls, store, os_fds, first_ver, aborted, ndebug>>

\* the device completes the deletion of pool id
Reclaim(id) ==
    /\ ~aborted
    /\ id \in dev.deleting
    /\ dev' = nvm_kv_pool_reclaim(dev, id)
    /\ walk' = walk_dirty(walk)
    /\ last' = [op |-> "env"]
    /\ UNCHANGED <<calls, store, os_fds, first_ver, written, aborted, ndebug>>

\* a batch is a sequence of (key, value) entries
BatchKeys(b) == [i \in 1 .. Len(b) |-> b[i].key]
BatchValues(b) == [i \in 1 .. Len(b) |-> b[i].value]

RECURSIVE batch_written(_, _, _, _, _)
batch_written(w, id, b, i, ok) ==
    IF i > Len(b) THEN w
    ELSE LET k == key_read(b[i].key.bytes, b[i].key.length)
         IN  batch_written(
                 IF Len(k) < 1 \/ Len(k) > NVM_KV_MAX_KEY_SIZE THEN w
                 ELSE [w EXCEPT ![id][k] =
                         IF ok
                         THEN [valid |-> TRUE,
                               bytes |-> SubSeq(b[i].value.data, 1,
                                                b[i].value.info.value_len)]
                         ELSE NotWritten],
                 id, b, i + 1, ok)

BatchPut(ids, batches) ==
    /\ ~aborted
    /\ \E id \in ids, b \in batches :
        LET n == fio_kv_batch_put(ndebug, dev, Pool(id), BatchKeys(b),
                                  BatchValues(b), Len(b))
            j == jni_batch_put(n)
        IN  /\ GenBounded(n.dev)
            /\ aborted' = n.abort
            /\ dev' = n.dev
            /\ written' = IF n.abort \/ n.dev = dev THEN written
                          ELSE batch_written(written, id, b, 1, n.ret)
            /\ walk' = IF n.dev # dev THEN walk_dirty(walk) ELSE walk
            /\ last' = [op |-> "batch_put", abort |-> n.abort, pool |-> id,
                        batch |-> b, ret |-> j.ret, v |-> n.v,
                        infos |-> j.infos,
                        closed |-> (store = ClosedStore),
                        devsame |-> (n.dev = dev)]
    /\ UNCHANGED <<calls, store, os_fds, first_ver, ndebug>>

Iterator(ids) ==
    /\ ~aborted
    /\ \E id \in ids :
        LET n == fio_kv_iterator(ndebug, dev, Pool(id))
        IN  /\ aborted' = n.abort
            /\ dev' = n.dev
            /\ walk' = IF n.abort THEN walk
                        ELSE walk_begin(walk, dev, id, n.ret)
            /\ last' = [op |-> "iterator", abort |-> n.abort, pool |-> id,
                        ret |-> n.ret, closed |-> (store = ClosedStore),
                        devsame |-> (n.dev = dev)]
    /\ UNCHANGED <<calls, store, os_fds, first_ver, written, ndebug>>

\* the pairs the device may move cursor it to
Picks(it) ==
    IF it \in ItIds /\ dev.iters[it].todo # {} THEN dev.iters[it].todo
    ELSE {<<>>}

IterNext(ids, its) ==
    /\ ~aborted
    /\ \E id \in ids, it \in its :
       \E pick \in Picks(it) :
        LET n == fio_kv_next(ndebug, dev, Pool(id), it, pick)
        IN  /\ aborted' = n.abort
            /\ dev' = n.dev
            /\ walk' = IF n.abort THEN walk
                        ELSE walk_next(walk, dev, store.kv, it, n.ret)
            /\ last' = [op |-> "next", abort |-> n.abort, pool |-> id,
                        it |-> it, ret |-> n.ret,
                        was_done |-> (it \in ItIds /\ walk[it].done),
                        was_ended |-> (it \in ItIds /\ walk[it].ended),
                        on |-> IF iter_ok(dev, store.kv, it)
                               THEN dev.iters[it].pool ELSE -1,
                        closed |-> (store = ClosedStore),
                        devsame |-> (n.dev = dev)]
    /\ UNCHANGED <<calls, store, os_fds, first_ver, written, ndebug>>

KeyBuf ==
    [length |-> NVM_KV_MAX_KEY_SIZE,
     bytes |-> Rep(0, NVM_KV_MAX_KEY_SIZE)]

GetCurrent(ids, its) ==
    /\ ~aborted
    /\ \E id \in ids, it \in its :
        LET n == fio_kv_get_current(ndebug, dev, Pool(id), it, KeyBuf,
                                    [data |-> Buf(0), info |-> InfoFull])
        IN  /\ aborted' = n.abort
            /\ dev' = n.dev
            /\ walk' = IF n.abort THEN walk
                        ELSE walk_current(walk, it, n.ret, n.key)
            /\ last' = [op |-> "get_current", abort |-> n.abort, pool |-> id,
                        it |-> it, ret |-> n.ret, key |-> n.key,
                        buf |-> n.buf, info |-> n.info,
                        was_done |-> (it \in ItIds /\ walk[it].done),
                        was_ended |-> (it \in ItIds /\ walk[it].ended),
                        at |-> IF iter_ok(dev, store.kv, it)
                               THEN dev.iters[it].cur ELSE <<>>,
                        on |-> IF iter_ok(dev, store.kv, it)
                               THEN dev.iters[it].pool ELSE -1,
                        closed |-> (store = ClosedStore),
                        devsame |-> (n.dev = dev)]
    /\ UNCHANGED <<calls, store, os_fds, first_ver, written, ndebug>>

EndIteration(ids, its) ==
    /\ ~aborted
    /\ \E id \in ids, it \in its :
        LET n == fio_kv_end_iteration(ndebug, dev, Pool(id), it)
        IN  /\ aborted' = n.abort
            /\ dev' = n.dev
            /\ walk' = IF n.abort THEN walk
                        ELSE walk_end(walk, it, n.ret)
            /\ last' = [op |-> "end_iteration", abort |-> n.abort,
                        pool |-> id, it |-> it, ret |-> n.ret,
                        was_done |-> (it \in ItIds /\ walk[it].done),
                        was_ended |-> (it \in ItIds /\ walk[it].ended),
                        on |-> IF iter_ok(dev, store.kv, it)
                               THEN dev.iters[it].pool ELSE -1,
                        closed |-> (store = ClosedStore),
                        devsame |-> (n.dev = dev)]
    /\ UNCHANGED <<calls, store, os_fds, first_ver, written, ndebug>>

\* the lengths callers ask for: around the sector size, around 2^16, and
\* the largest ones
AllocLengths ==
    {U32(0, 0), U32(0, 1), U32(0, 511), U32(0, 512), U32(0, 513),
     U32(0, 1023), U32(0, 1024), U32(0, 1025), U32(0, 65535), U32(1, 0),
     U32(32767, 65535), U32(65535, 65023), U32(65535, 65024),
     U32(65535, 65025), U32(65535, 65535)}

\* what an uninitialized pointer may hold: NULL, or anything else
Junk == {NULL, 7}

Alloc ==
    /\ ~aborted
    /\ \E length \in AllocLengths, junk \in Junk, fits \in BOOLEAN,
          addr \in {1, 8}, zero_null \in BOOLEAN :
        LET n == fio_kv_alloc(length, junk, fits, addr, zero_null)
            j == jni_alloc(n, length)
        IN  last' = [op |-> "alloc", length |-> length, fits |-> fits,
                     p |-> n.p, size |-> n.size, reserved |-> n.reserved,
                     jnull |-> j.null, capacity |-> j.capacity]
    /\ UNCHANGED <<calls, store, os_fds, dev, first_ver,
                   written, aborted, ndebug, walk>>

\* the environment: the device starts, or stops, failing every call
DeviceFault ==
    /\ ~aborted
    /\ ~dev.fault
    /\ dev' = [dev EXCEPT !.fault = TRUE]
    /\ walk' = walk_dirty(walk)
    /\ last' = [op |-> "env"]
    /\ UNCHANGED <<calls, store, os_fds, first_ver, written, aborted, ndebug>>

DeviceRecover ==
    /\ ~aborted
    /\ dev.fault
    /\ dev' = [dev EXCEPT !.fault = FALSE]
    /\ last' = [op |-> "env"]
    /\ UNCHANGED <<calls, store, os_fds, first_ver, written,
                   aborted, ndebug, walk>>

\* the sets of arguments the callers of the specifications below draw from
TwoPools == {0, 1}
KeysAZero == {KeyA, KeyZero}
KeysAB == {KeyA, KeyB}
OneBuf == {Buf(7)}
TwoBufs == {Buf(7), Buf(8)}
InfosShortOver == {InfoShort, InfoOver}
InfosShortFull == {InfoShort, InfoFull}
InfosShortGenFull == {InfoShort, InfoGen, InfoFull}
TagsShortLong == {"sessions", "a-seventeen-bytes"}
UserPoolIds == PoolIds \ {0}

(***************************************************************************)
(* Spec: the store's lifecycle.  Open, close and destroy in any order and  *)
(* with any arguments, on a device that may fail, with puts and gets of    *)
(* one key on whatever the Store object holds.                             *)
(***************************************************************************)
Next ==
    \/ Open(OpenArgs)
    \/ Close
    \/ Destroy
    \/ Put({0}, KeysAZero, OneBuf, {InfoShort})
    \/ Get({0}, KeysAZero, {InfoShort})
    \/ DeviceFault
    \/ DeviceRecover

Spec == Init /\ [][Next]_vars

(***************************************************************************)
(* SpecOps: a caller that opens the Store when it is closed and calls     *)
(* every operation of the layer on whatever the Store then holds (closed,  *)
(* open, or left half-open by a failed open), on one key of the default    *)
(* pool and of the pool it creates.                                        *)
(***************************************************************************)
OneOpen == {[version |-> 1, expiry_type |-> "disabled", expiry_time |-> 0]}

OneBatch ==
    {<<[key |-> KeyA, value |-> [data |-> Buf(7), info |-> InfoShort]]>>}

OpenClosed == store = ClosedStore /\ Open(OneOpen)

\* the cursors the device holds
Held == {i \in ItIds : dev.iters[i].active}

\* a caller that begins a traversal when it holds no cursor
IteratorFirst == Held = {} /\ Iterator({0})

\* a caller that writes a key when it has not written it yet
PutA == ~written[0][<<1>>].valid /\ Put({0}, {KeyA}, OneBuf, {InfoShort})

PutB == ~written[0][<<2, 1>>].valid /\ Put({0}, {KeyB}, OneBuf, {InfoShort})

NextOps ==
    \/ OpenClosed
    \/ Close
    \/ Put(TwoPools, KeysAZero, OneBuf, {InfoShort})
    \/ Get(TwoPools, KeysAZero, {InfoShort})
    \/ Exists(TwoPools, KeysAZero)
    \/ Delete(TwoPools, KeysAZero)
    \/ GetValueLen({0}, KeysAZero)
    \/ GetStoreInfo
    \/ CreatePool({"sessions"})
    \/ BatchPut({0}, OneBatch)
    \/ IteratorFirst
    \/ IterNext({0}, {0})
    \/ GetCurrent({0}, {0})
    \/ EndIteration({0}, {0})
    \/ DeviceFault
    \/ DeviceRecover

SpecOps == Init /\ [][NextOps]_vars

(***************************************************************************)
(* SpecBatch: a caller that opens the Store when it is closed and writes   *)
(* batches of two entries, of which at most one breaks a length bound, and *)
(* single values and pool tags that may be too long.                       *)
(***************************************************************************)
Entry(key, data, info) == [key |-> key, value |-> [data |-> data, info |-> info]]

GoodBatches ==
    {<<Entry(KeyA, Buf(7), InfoShort), Entry(KeyB, Buf(8), InfoFull)>>,
     <<Entry(KeyB, Buf(7), InfoGen), Entry(KeyA, Buf(8), InfoShort)>>}

\* the second, or the first, entry has a key of length 0, a key one byte too
\* long, or a value one byte too long
BadBatches ==
    {<<Entry(KeyA, Buf(7), InfoShort), Entry(KeyZero, Buf(8), InfoShort)>>,
     <<Entry(KeyLong, Buf(8), InfoShort), Entry(KeyA, Buf(7), InfoShort)>>,
     <<Entry(KeyA, Buf(7), InfoShort), Entry(KeyB, Buf(8), InfoOver)>>,
     <<Entry(KeyB, Buf(8), InfoOver), Entry(KeyA, Buf(7), InfoShort)>>}

AllBatches == GoodBatches \cup BadBatches

NextBatch ==
    \/ OpenClosed
    \/ Close
    \/ BatchPut({0}, AllBatches)
    \/ Put({0}, {KeyA}, OneBuf, InfosShortOver)
    \/ Get({0}, KeysAB, {InfoFull})
    \/ CreatePool(TagsShortLong)
    \/ DeviceFault
    \/ DeviceRecover

SpecBatch == Init /\ [][NextBatch]_vars

(***************************************************************************)
(* SpecAlloc: a caller that allocates buffers of any length, on a system   *)
(* that may be out of memory, and opens and closes the Store.              *)
(***************************************************************************)
NextAlloc ==
    \/ Alloc
    \/ OpenClosed
    \/ Close

SpecAlloc == Init /\ [][NextAlloc]_vars

(***************************************************************************)
(* SpecPool: a caller that opens the Store when it is closed, gets or      *)
(* creates pools by tag, deletes them, and puts and gets one key in the    *)
(* first of them, on a device that reclaims deleted pools in its own time  *)
(* and may fail.  SpecPoolLive is SpecPool with a device that does not     *)
(* put a reclamation off forever.                                          *)
(***************************************************************************)
ReclaimSome == \E id \in UserPoolIds : Reclaim(id)

\* the caller writes the key to the first created pool when it has not yet
PutFirst == ~written[1][<<1>>].valid /\ Put({1}, {KeyA}, OneBuf, {InfoShort})

NextPool ==
    \/ OpenClosed
    \/ Close
    \/ GetOrCreatePool(Tags)
    \/ DeletePool(UserPoolIds)
    \/ ReclaimSome
    \/ PutFirst
    \/ Get({1}, {KeyA}, {InfoShort})
    \/ GetStoreInfo
    \/ DeviceFault
    \/ DeviceRecover

SpecPool == Init /\ [][NextPool]_vars

SpecPoolLive == SpecPool /\ \A id \in UserPoolIds : WF_vars(Reclaim(id))

Requests ==
    {[op |-> o, pool |-> id, key |-> KeyA,
      value |-> [data |-> Buf(7), info |-> InfoShort]] :
        o \in {"put", "delete", "batch_put"}, id \in TwoPools}

\* the helper function of call c, run against device d
call_run(nd, d, c) ==
    IF c.op = "put"
    THEN LET n == fio_kv_put(nd, d, Pool(c.pool), c.key, c.value)
         IN  [abort |-> n.abort, ok |-> (n.ret >= 0), dev |-> n.dev]
    ELSE IF c.op = "delete"
    THEN LET n == fio_kv_delete(nd, d, Pool(c.pool), c.key)
         IN  [abort |-> n.abort, ok |-> n.ret, dev |-> n.dev]
    ELSE LET n == fio_kv_batch_put(nd, d, Pool(c.pool), <<c.key>>,
                                   <<c.value>>, 1)
         IN  [abort |-> n.abort, ok |-> n.ret, dev |-> n.dev]

\* thread t enters a helper function and hands the call to the device
Enter(t) ==
    /\ ~aborted
    /\ calls[t] = Idle
    /\ \E c \in Requests :
        LET n == call_run(ndebug, dev, c)
        IN  /\ aborted' = n.abort
            /\ calls' = IF n.abort THEN calls ELSE [calls EXCEPT ![t] = c]
            /\ last' = [op |-> "enter", abort |-> n.abort, thread |-> t,
                        call |-> c]
    /\ UNCHANGED <<store, os_fds, dev, first_ver, written, ndebug, walk>>

\* the device call of thread t comes back and the helper returns
Return(t) ==
    /\ ~aborted
    /\ calls[t] # Idle
    /\ LET c == calls[t]
           n == call_run(ndebug, dev, c)
           k == key_read(c.key.bytes, c.key.length)
       IN  /\ GenBounded(n.dev)
           /\ dev' = n.dev
           /\ written' =
                IF ~n.ok THEN written
                ELSE IF c.op = "delete"
                THEN [written EXCEPT ![c.pool][k] = NotWritten]
                ELSE [written EXCEPT ![c.pool][k] =
                        [valid |-> TRUE,
                         bytes |-> SubSeq(c.value.data, 1,
                                          c.value.info.value_len)]]
           /\ walk' = IF n.dev # dev THEN walk_dirty(walk) ELSE walk
           /\ calls' = [calls EXCEPT ![t] = Idle]
           /\ last' = [op |-> "return", abort |-> FALSE, thread |-> t,
                       call |-> c, ok |-> n.ok,
                       closed |-> (store = ClosedStore),
                       devsame |-> (n.dev = dev)]
    /\ UNCHANGED <<store, os_fds, first_ver, aborted, ndebug>>

NextThreads ==
    \/ OpenClosed
    \/ Close
    \/ CreatePool({"sessions"})
    \/ \E t \in Threads : Enter(t)
    \/ \E t \in Threads : Return(t)

SpecThreads == Init /\ [][NextThreads]_vars

\* C24: put, delete and batch_put that two threads issue on the same Pool
\* are serialized by the layer: at no time are two device calls on one pool
\* in progress
C24_MutationsSerialized ==
    \A t1, t2 \in Threads :
        (t1 # t2 /\ calls[t1] # Idle /\ calls[t2] # Idle)
            => calls[t1].pool # calls[t2].pool

(***************************************************************************)
(* SpecScope: a caller that opens the Store when it is closed, creates a   *)
(* second pool, writes a key to the default pool, begins a traversal of    *)
(* the default pool, and then steps, reads and ends the cursor through     *)
(* either Pool object of the Store.                                        *)
(***************************************************************************)
NextScope ==
    \/ OpenClosed
    \/ Close
    \/ CreatePool({"sessions"})
    \/ PutA
    \/ PutB
    \/ IteratorFirst
    \/ IterNext(TwoPools, ItIds)
    \/ GetCurrent(TwoPools, ItIds)
    \/ EndIteration(TwoPools, ItIds)

SpecScope == Init /\ [][NextScope]_vars

\* C30: next, get_current and end_iteration called with an existing Pool of
\* the Store other than the one the iterator was begun on return false and
\* leave the cursor, and the rest of the device, as they were
C30_IteratorScopedToPool ==
    (/\ last.op \in {"next", "get_current", "end_iteration"}
     /\ ~last.abort
     /\ last.on # -1
     /\ last.on # last.pool
     /\ dev.pools[last.pool] # NoPool)
        => (~last.ret /\ last.devsame)

(***************************************************************************)
(* SpecIter: a caller that opens the Store when it is closed, writes and   *)
(* deletes keys of the default pool, and traverses it with up to two       *)
(* cursors, stepping, reading and ending them in any order, on a device    *)
(* that may fail.                                                          *)
(***************************************************************************)
\* the caller holds two cursors at most
IteratorHeld == Cardinality(Held) < 2 /\ Iterator({0})

NextIter ==
    \/ OpenClosed
    \/ Close
    \/ PutA
    \/ PutB
    \/ Delete({0}, {KeyA})
    \/ IteratorHeld
    \/ IterNext({0}, ItIds)
    \/ GetCurrent({0}, ItIds)
    \/ EndIteration({0}, ItIds)
    \/ DeviceFault
    \/ DeviceRecover

SpecIter == Init /\ [][NextIter]_vars

\* C17: once a fio_kv_next has found an iterator exhausted, every later
\* fio_kv_next on it, until end_iteration, returns false, does not terminate
\* the process, and leaves the cursor and the rest of the device as they were
C17_ExhaustedStaysExhausted ==
    (last.op = "next" /\ last.was_done /\ ~last.was_ended)
        => (~last.abort /\ ~last.ret /\ last.devsame)

\* a second next on a cursor that is still held and has stepped over both
\* keys of the pool
C17_Witness ==
    /\ last.op = "next"
    /\ last.was_done
    /\ ~last.ret
    /\ iter_ok(dev, store.kv, last.it)
    /\ walk[last.it].clean
    /\ walk[last.it].steps = 2

\* C18: while the device is left alone since the begin (no write, no
\* failure), get_current yields only keys the pool held at the begin, next
\* succeeds at most once per such key, and once next has found the iterator
\* exhausted, a caller that read the pair after every step has been given
\* every key the pool held at the begin
C18_FullTraversal ==
    \A it \in ItIds :
        walk[it].clean =>
            /\ walk[it].seen \subseteq walk[it].snap
            /\ walk[it].steps <= Cardinality(walk[it].snap)
            /\ (walk[it].done /\ ~walk[it].skipped)
                   => walk[it].seen = walk[it].snap

\* a whole loop over a pool of two keys: begin, two steps each followed by a
\* read, the step that reports the end, and end_iteration
C18_Witness ==
    \E it \in ItIds :
        /\ walk[it].clean
        /\ walk[it].done
        /\ ~walk[it].skipped
        /\ walk[it].ended
        /\ Cardinality(walk[it].snap) = 2
        /\ walk[it].seen = walk[it].snap

\* C19: after end_iteration has succeeded on an iterator id, and until a
\* begin hands the id out again, next, get_current and end_iteration with
\* that id return false, do not terminate the process, and leave every
\* cursor and the rest of the device as they were
C19_EndedIdIsDead ==
    (last.op \in {"next", "get_current", "end_iteration"} /\ last.was_ended)
        => (~last.abort /\ ~last.ret /\ last.devsame)

\* a next with an ended id while another cursor is positioned on a key
C19_Witness ==
    /\ last.op = "next"
    /\ last.was_ended
    /\ ~last.ret
    /\ \E j \in ItIds \ {last.it} :
          iter_ok(dev, store.kv, j) /\ dev.iters[j].cur # <<>>

\* C20: fio_kv_get_current returns true only when the cursor is positioned on
\* a pair (not just after begin, not when exhausted), and then key.length is
\* the length of the key at the cursor
C20_CurrentOnlyWhilePositioned ==
    (last.op = "get_current" /\ ~last.abort /\ last.ret)
        => (last.at # <<>> /\ last.key.length = Len(last.at))

\* a read at a key shorter than the caller's key buffer
C20_Witness ==
    /\ last.op = "get_current"
    /\ last.ret
    /\ Len(last.at) = 1
    /\ last.key.length = 1

\* C21: when fio_kv_next or fio_kv_get_current fails on an iterator that
\* holds a cursor slot of the device, the layer releases the slot: no failed
\* step leaves a slot allocated with no end_iteration issued for it
C21_FailedStepReleases ==
    (/\ last.op \in {"next", "get_current"}
     /\ ~last.abort
     /\ ~last.ret
     /\ last.on # -1)
        => ~dev.iters[last.it].active

(***************************************************************************)
(* SpecKV: a caller that opens the Store when it is closed and works on    *)
(* two keys of the default pool (pool 1 is never created), with valid      *)
(* arguments.                                                              *)
(***************************************************************************)
NextKV ==
    \/ OpenClosed
    \/ Close
    \/ Put(TwoPools, KeysAB, TwoBufs, InfosShortGenFull)
    \/ Get(TwoPools, KeysAB, InfosShortFull)
    \/ Exists(TwoPools, KeysAB)
    \/ Delete(TwoPools, KeysAB)
    \/ DeviceFault
    \/ DeviceRecover

SpecKV == Init /\ [][NextKV]_vars

(***************************************************************************)
(* The claims.                                                             *)
(***************************************************************************)
StoreOpen ==
    /\ store.fd \in os_fds
    /\ store.kv > 0
    /\ valid_kv(dev, store.kv)

\* C1: after any sequence of open, close and destroy (failed opens
\* included) the Store is closed (fd = 0 and kv = 0) or open (fd a
\* descriptor the process holds, kv a positive identifier the device knows).
C1_ClosedOrOpen == store = ClosedStore \/ StoreOpen

\* C2: when open returns failure the Store is left closed (fd = 0, kv = 0)
\* and the descriptor the call obtained, if any, is no longer held.
C2_FailedOpenLeavesClosed ==
    (last.op = "open" /\ ~last.ret) =>
        (store = ClosedStore /\ last.fd_got \notin os_fds)

\* C3: the device records the caller's version at the first open, and a
\* later open succeeds only with that version.
C3_VersionValidated ==
    /\ first_ver # 0 => dev.version = first_ver
    /\ (last.op = "open" /\ last.ret) => last.args.version = first_ver

\* C4: an open in global expiry mode that returns success had
\* expiry_time > 0 and has set it on the device as the store-wide TTL.
C4_GlobalExpiryPushed ==
    (last.op = "open" /\ last.ret /\ last.args.expiry_type = "global") =>
        /\ last.args.expiry_time > 0
        /\ dev.global_expiry = last.args.expiry_time

\* the operations, other than open, close and destroy, that take a Store
\* or one of its pools
StoreOps ==
    {"get", "put", "exists", "delete", "get_value_len", "batch_put",
     "create_pool", "get_store_info", "iterator", "next", "get_current",
     "end_iteration"}

\* the failure indication of the call recorded in l: a negative integer,
\* false, or a null pointer
Failed(l) ==
    CASE l.op \in {"get", "put", "exists", "get_value_len", "iterator"}
            -> l.ret < 0
      [] l.op \in {"delete", "batch_put", "next", "get_current",
                   "end_iteration"}
            -> l.ret = FALSE
      [] l.op \in {"create_pool", "get_store_info"}
            -> l.null

\* C5: a get, put, exists, delete, get_value_len, batch_put, pool creation,
\* get_store_info, iterator begin, next, get_current or end_iteration that
\* is called on a closed Store (fd = 0, kv = 0) and returns, returns its
\* failure indication and leaves the device's state as it was.
C5_ClosedStoreOpsFail ==
    (last.op \in StoreOps /\ last.closed /\ ~last.abort)
        => (Failed(last) /\ last.devsame)

\* a pool creation on a closed Store, on a healthy device that already holds
\* a key, has returned null
C5_Witness ==
    /\ last.op = "create_pool"
    /\ last.closed
    /\ last.null
    /\ ~dev.fault
    /\ dev.data[0] # EmptyData[0]

\* the entries of batch b that break a length bound
BadEntries(b) ==
    {i \in 1 .. Len(b) :
        \/ b[i].key.length < 1
        \/ b[i].key.length > NVM_KV_MAX_KEY_SIZE
        \/ b[i].value.info.value_len > NVM_KV_MAX_VALUE_SIZE}

\* C11: a batch put in which exactly one entry breaks a length bound (key
\* length outside 1..MAX_KEY_SIZE, value length over the device maximum)
\* returns, and returns false: the process is not terminated and success is
\* not reported.
C11_BadBatchFails ==
    (last.op = "batch_put" /\ Cardinality(BadEntries(last.batch)) = 1) =>
        (~last.abort /\ last.ret = FALSE)

\* C12: after a batch put that succeeded, the info record of every value,
\* in input order, is the device's metadata of that entry as written.
C12_BatchRepopulatesInfo ==
    (last.op = "batch_put" /\ ~last.abort /\ last.ret) =>
        \A i \in 1 .. Len(last.batch) :
            LET key == last.batch[i].key
                e   == dev.data[last.pool][key_read(key.bytes, key.length)]
            IN  last.infos[i] = MkInfo(last.pool, key.length, Len(e.bytes),
                                       e.expiry, e.gen)

\* C13: a put of a value longer than the device maximum, a batch put with
\* such a value, and a pool creation with a tag longer than
\* FIO_TAG_MAX_LENGTH are refused without the device being called.
C13_LocalRejection ==
    /\ (last.op = "put" /\ ~last.abort
          /\ last.info_in.value_len > NVM_KV_MAX_VALUE_SIZE)
            => last.seen = <<>>
    /\ (last.op = "batch_put" /\ ~last.abort
          /\ \E i \in 1 .. Len(last.batch) :
                last.batch[i].value.info.value_len > NVM_KV_MAX_VALUE_SIZE)
            => last.v = <<>>
    /\ (last.op = "create_pool" /\ TagLen(last.tag) > FIO_TAG_MAX_LENGTH)
            => ~last.called

\* length rounded up to a multiple of FIO_SECTOR_ALIGNMENT, not wrapped
RoundedUp(length) ==
    LET r == u32_mod(length, FIO_SECTOR_ALIGNMENT)
        lo == length.lo - r + FIO_SECTOR_ALIGNMENT
    IN  IF r = 0 THEN length
        ELSE U32(length.hi + (lo \div 65536), lo % 65536)

\* C14: a buffer that fio_kv_alloc reserved starts at a multiple of
\* FIO_SECTOR_ALIGNMENT and has exactly length rounded up to a multiple of
\* FIO_SECTOR_ALIGNMENT bytes (length itself when it is such a multiple).
C14_AllocRoundsUp ==
    (last.op = "alloc" /\ last.reserved /\ last.p # NULL) =>
        /\ last.p % FIO_SECTOR_ALIGNMENT = 0
        /\ last.size = RoundedUp(last.length)

\* C15: fio_kv_alloc of length 0, and fio_kv_alloc when the system has no
\* memory for it, return a null buffer, natively and through JNI.
C15_AllocFailureIsNull ==
    (last.op = "alloc" /\ (last.length = U32(0, 0) \/ ~last.fits)) =>
        (last.p = NULL /\ last.jnull)

LastKey == key_read(last.key.bytes, last.key.length)

\* C6: a get of a key whose last mutation was a successful put, into a
\* buffer at least as long as the value, on an open store whose device
\* answers, returns the length that was put, the bytes that were put, and
\* an info record with the key's length and the value's length.
C6_PutGetRoundTrip ==
    (/\ last.op = "get"
     /\ ~last.abort
     /\ usable(dev, store.kv)
     /\ written[last.pool][LastKey].valid
     /\ last.info_in.value_len >= Len(written[last.pool][LastKey].bytes)) =>
        LET w == written[last.pool][LastKey].bytes
        IN  /\ last.ret = Len(w)
            /\ SubSeq(last.buf, 1, Len(w)) = w
            /\ last.info.key_len = last.key.length
            /\ last.info.value_len = Len(w)

C6_Witness ==
    /\ last.op = "get"
    /\ last.key = KeyB
    /\ written[last.pool][LastKey].valid
    /\ last.ret = NVM_KV_MAX_VALUE_SIZE
    /\ SubSeq(last.buf, 1, last.ret) = SubSeq(Buf(8), 1, last.ret)

\* C7: exists called right after a successful put of the same key of the
\* same pool reports present (1); called right after a successful delete
\* of it, it reports absent (0).
C7_ExistsAfterPutDelete ==
    (last.op = "exists" /\ ~last.abort) =>
        /\ last.after = "put" => last.ret = 1
        /\ last.after = "delete" => last.ret = 0

C7_Witness ==
    /\ last.op = "exists"
    /\ last.after = "delete"
    /\ last.ret = 0
    /\ last.key = KeyB

\* C8: after a successful put, value.info holds the device's metadata of
\* the key as written: pool id, key length, stored length, expiry and
\* generation count.
C8_PutRepopulatesInfo ==
    (last.op = "put" /\ ~last.abort /\ last.ok) =>
        LET e == dev.data[last.pool][LastKey]
        IN  last.info = MkInfo(last.pool, last.key.length, Len(e.bytes),
                               e.expiry, e.gen)

\* C9: the value length, expiry and generation count that put hands to the
\* device are those of value.info.
C9_PutSubmitsInfo ==
    (last.op = "put" /\ last.seen # <<>>) =>
        /\ last.seen[1].value_len = last.info_in.value_len
        /\ last.seen[1].expiry = last.info_in.expiry
        /\ last.seen[1].gen_count = last.info_in.gen_count

\* C10: a device error (-1 from the native call) is not reported as
\* "present" through the JNI binding.
C10_ErrorNotPresent ==
    (last.op = "exists" /\ ~last.abort /\ last.ret = -1) => ~last.jret

\* C25: fio_kv_close leaves fd = 0 and kv = 0 whatever the Store held; when
\* the Store held a descriptor of the process it releases exactly that one;
\* on a closed Store it releases nothing and changes nothing
C25_CloseClears ==
    last.op = "close" =>
        /\ store = ClosedStore
        /\ last.was_held => last.released = {last.was.fd}
        /\ last.was = ClosedStore => (last.released = {} /\ last.same)

\* a close of a Store that held a descriptor and a store identifier
C25_Witness ==
    /\ last.op = "close"
    /\ last.was.kv > 0
    /\ last.released = {last.was.fd}
    /\ last.was.fd \notin os_fds

\* C26: fio_kv_destroy leaves the Store closed whether or not the device
\* erased; it returns true only with every pool, key and value and the
\* recorded version gone, and false only with pools and pairs as they were
C26_DestroyErasesThenCloses ==
    last.op = "destroy" =>
        /\ store = ClosedStore
        /\ last.ret => last.erased
        /\ ~last.ret => last.kept

\* a destroy that returned true and removed a pair
C26_Witness ==
    /\ last.op = "destroy"
    /\ last.ret
    /\ ~last.kept
    /\ store = ClosedStore

\* C28: the process holds one descriptor when the Store is open and none
\* otherwise
C28_OneHandleWhenOpen ==
    Cardinality(os_fds) = IF StoreOpen THEN 1 ELSE 0

\* C27: a get, put, exists, delete or get_value_len called with a key whose
\* length is outside 1 .. NVM_KV_MAX_KEY_SIZE or whose bytes are null stops
\* at the check and does not go on to the device call
C27_KeyCheckedBeforeDevice ==
    (last.op \in {"get", "put", "exists", "delete", "get_value_len"}
     /\ ~check_key(last.key)) => last.abort

\* C29: the size fio_kv_alloc asks the system for is a multiple of 512 and is
\* not less than the length asked for
C29_AllocSizeNoWrap ==
    last.op = "alloc" =>
        /\ u32_mod(last.size, FIO_SECTOR_ALIGNMENT) = 0
        /\ ~u32_less(last.size, last.length)

====
